---- MODULE Spec2Model ----
(***************************************************************************)
(* A model of package openid (src/openid.go): the two entry points         *)
(* RedirectURI (identifier normalisation, Yadis discovery, XRDS            *)
(* extraction, redirect URL construction) and Validate (direct             *)
(* verification of an assertion).                                          *)
(*                                                                         *)
(* A Go string is modelled as the sequence of its characters, so that      *)
(* prefix tests, indexing, slicing, splitting and escaping are computed    *)
(* the way the code computes them.  Error values are modelled by their     *)
(* identity (a TLA+ string).  The network is the environment: every GET    *)
(* and POST draws its outcome from a bounded set.                          *)
(***************************************************************************)
EXTENDS Naturals, Integers, Sequences, FiniteSets, TLC

(***************************************************************************)
(* Bounds of the model.                                                    *)
(***************************************************************************)
\* most lines in an operator's verification response
MaxLines == 3
\* most GETs of one discovery chain the model records (the chain goes on)
MaxHops == 3
\* most Service entries of a discovery document
MaxServices == 2

(***************************************************************************)
(* String literals of the program.                                         *)
(***************************************************************************)
XriPrefix ==
    <<"x","r","i",":","/","/">>
HttpPrefix ==
    <<"h","t","t","p",":","/","/">>
HttpsPrefix ==
    <<"h","t","t","p","s",":","/","/">>
XriProxy ==
    <<"h","t","t","p",":","/","/","x","r","i",".","n","e","t","/">>
xri_global_context_symbol ==
    <<"=","@","+","$","!","(">>
xrds_mime ==
    <<"a","p","p","l","i","c","a","t","i","o","n","/","x","r","d","s","+","x","m","l">>
TextHtml ==
    <<"t","e","x","t","/","h","t","m","l">>
NS ==
    <<"h","t","t","p",":","/","/","s","p","e","c","s",".","o","p","e","n","i","d",".","n","e","t","/","a","u","t","h","/","2",".","0">>
IdentifierSelect ==
    <<"h","t","t","p",":","/","/","s","p","e","c","s",".","o","p","e","n","i","d",".","n","e","t","/","a","u","t","h","/","2",".","0","/","i","d","e","n","t","i","f","i","e","r","_","s","e","l","e","c","t">>
ServerType ==
    <<"h","t","t","p",":","/","/","s","p","e","c","s",".","o","p","e","n","i","d",".","n","e","t","/","a","u","t","h","/","2",".","0","/","s","e","r","v","e","r">>
SignonType ==
    <<"h","t","t","p",":","/","/","s","p","e","c","s",".","o","p","e","n","i","d",".","n","e","t","/","a","u","t","h","/","2",".","0","/","s","i","g","n","o","n">>
K_op_endpoint ==
    <<"o","p","e","n","i","d",".","o","p","_","e","n","d","p","o","i","n","t">>
K_mode ==
    <<"o","p","e","n","i","d",".","m","o","d","e">>
K_claimed_id ==
    <<"o","p","e","n","i","d",".","c","l","a","i","m","e","d","_","i","d">>
K_identity ==
    <<"o","p","e","n","i","d",".","i","d","e","n","t","i","t","y">>
K_realm ==
    <<"o","p","e","n","i","d",".","r","e","a","l","m">>
K_return_to ==
    <<"o","p","e","n","i","d",".","r","e","t","u","r","n","_","t","o">>
K_ns ==
    <<"o","p","e","n","i","d",".","n","s">>
id_res ==
    <<"i","d","_","r","e","s">>
check_authentication ==
    <<"c","h","e","c","k","_","a","u","t","h","e","n","t","i","c","a","t","i","o","n">>
checkid_setup ==
    <<"c","h","e","c","k","i","d","_","s","e","t","u","p">>
FormMime ==
    <<"a","p","p","l","i","c","a","t","i","o","n","/","x","-","w","w","w","-","f","o","r","m","-","u","r","l","e","n","c","o","d","e","d">>
S_ns ==
    <<"n","s">>
S_is_valid ==
    <<"i","s","_","v","a","l","i","d">>
S_true ==
    <<"t","r","u","e">>

(***************************************************************************)
(* Error values.                                                           *)
(***************************************************************************)
Nil == "nil"
NO_OP_ENDPOINT == "openid: No op endpoint provided."
NS_INCORRECT == "openid: ns in verification response was not 'http://specs.openid.net/auth/2.0'"
INCORRECT_MODE == "openid: Incorrect mode."
\* the error http.Post / Client.Do returns
TransportErr == "transport error"
\* the error ioutil.ReadAll returns
ReadErr == "body read error"

(***************************************************************************)
(* The string functions of the Go library the program calls.  Indices are  *)
(* Go's: 0-based, -1 for "not found".                                      *)
(***************************************************************************)
\* strings.HasPrefix(s, prefix)
HasPrefix(s, prefix) ==
    /\ Len(s) >= Len(prefix)
    /\ SubSeq(s, 1, Len(prefix)) = prefix

\* s[lo:]
SliceFrom(s, lo) == SubSeq(s, lo + 1, Len(s))

\* s[:hi]
SliceTo(s, hi) == SubSeq(s, 1, hi)

\* strings.Index(s, c) for a one-character c
Index(s, c) ==
    IF \E i \in 1..Len(s) : s[i] = c
    THEN (CHOOSE i \in 1..Len(s) : s[i] = c /\ \A j \in 1..(i - 1) : s[j] # c) - 1
    ELSE -1

\* strings.ContainsRune(s, c)
ContainsRune(s, c) == \E i \in 1..Len(s) : s[i] = c

\* strings.Split(s, sep) for a one-character sep
RECURSIVE Split(_, _)
Split(s, sep) ==
    LET i == Index(s, sep) IN
    IF i = -1 THEN <<s>>
    ELSE <<SliceTo(s, i)>> \o Split(SliceFrom(s, i + 1), sep)

\* strings.SplitN(s, sep, 2) for a one-character sep
SplitN2(s, sep) ==
    LET i == Index(s, sep) IN
    IF i = -1 THEN <<s>>
    ELSE <<SliceTo(s, i), SliceFrom(s, i + 1)>>

\* the characters of the model in the order of their byte values
AsciiOrder ==
    <<"\n"," ","!","#","$","%","&","(","+","-",".","/",
      "0","1","2","3","4","5","6","7","8","9",":",";","=","?","@",
      "A","B","C","D","E","F","_",
      "a","b","c","d","e","f","g","h","i","j","k","l","m",
      "n","o","p","q","r","s","t","u","v","w","x","y","z">>

Byte(c) == CHOOSE i \in 1..Len(AsciiOrder) : AsciiOrder[i] = c

\* a < b on Go strings (bytewise lexicographic)
RECURSIVE StrLess(_, _)
StrLess(a, b) ==
    IF b = <<>> THEN FALSE
    ELSE IF a = <<>> THEN TRUE
    ELSE IF a[1] # b[1] THEN Byte(a[1]) < Byte(b[1])
    ELSE StrLess(Tail(a), Tail(b))

\* what url.QueryEscape writes for the characters it escapes
Escaped ==
    "\n" :> <<"%","0","A">> @@ " " :> <<"+">> @@
    "!" :> <<"%","2","1">> @@ "#" :> <<"%","2","3">> @@
    "$" :> <<"%","2","4">> @@ "%" :> <<"%","2","5">> @@
    "&" :> <<"%","2","6">> @@ "(" :> <<"%","2","8">> @@
    "+" :> <<"%","2","B">> @@ "/" :> <<"%","2","F">> @@
    ":" :> <<"%","3","A">> @@ ";" :> <<"%","3","B">> @@
    "=" :> <<"%","3","D">> @@ "?" :> <<"%","3","F">> @@
    "@" :> <<"%","4","0">>

\* url.QueryEscape(s)
RECURSIVE QueryEscape(_)
QueryEscape(s) ==
    IF s = <<>> THEN <<>>
    ELSE (IF s[1] \in DOMAIN Escaped THEN Escaped[s[1]] ELSE <<s[1]>>)
         \o QueryEscape(Tail(s))

(***************************************************************************)
(* url.Values: a map from a key to the list of its values, modelled as a   *)
(* function whose domain is the set of keys present.                       *)
(***************************************************************************)
\* url.Values.Get(key): the first value of key, "" when there is none
Get(v, key) ==
    IF key \in DOMAIN v /\ Len(v[key]) > 0 THEN v[key][1] ELSE <<>>

\* url.Values.Set(key, value): key now has the single value
Set(v, key, value) ==
    [k \in (DOMAIN v) \cup {key} |-> IF k = key THEN <<value>> ELSE v[k]]

\* the keys of v in sorted order
RECURSIVE SortedKeys(_)
SortedKeys(ks) ==
    IF ks = {} THEN <<>>
    ELSE LET m == CHOOSE k \in ks : \A o \in ks \ {k} : StrLess(k, o)
         IN <<m>> \o SortedKeys(ks \ {m})

\* key=value pairs of one key, each preceded by "&" when something precedes it
RECURSIVE EncodeKey(_, _, _)
EncodeKey(key, vs, first) ==
    IF vs = <<>> THEN <<>>
    ELSE (IF first THEN <<>> ELSE <<"&">>)
         \o QueryEscape(key) \o <<"=">> \o QueryEscape(vs[1])
         \o EncodeKey(key, Tail(vs), FALSE)

RECURSIVE EncodeFrom(_, _, _)
EncodeFrom(v, keys, first) ==
    IF keys = <<>> THEN <<>>
    ELSE LET part == EncodeKey(keys[1], v[keys[1]], first)
         IN part \o EncodeFrom(v, Tail(keys), first /\ part = <<>>)

\* url.Values.Encode(): "URL encoded" form, sorted by key
Encode(v) == EncodeFrom(v, SortedKeys(DOMAIN v), TRUE)

(***************************************************************************)
(* keyValueForm: the operator's response as a map.  A missing key reads    *)
(* as "" (MapGet), as in a Go map of strings.                              *)
(***************************************************************************)
RECURSIVE KeyValueLines(_, _)
KeyValueLines(lines, o) ==
    IF lines = <<>> THEN o
    ELSE LET v == lines[1] IN
         IF ContainsRune(v, ":")
         THEN LET split == SplitN2(v, ":")
              IN KeyValueLines(Tail(lines),
                    [k \in (DOMAIN o) \cup {split[1]} |->
                        IF k = split[1] THEN split[2] ELSE o[k]])
         ELSE KeyValueLines(Tail(lines), o)

keyValueForm(corpus) == KeyValueLines(Split(corpus, "\n"), <<>>)

MapGet(m, key) == IF key \in DOMAIN m THEN m[key] ELSE <<>>

(***************************************************************************)
(* State.                                                                  *)
(***************************************************************************)
VARIABLES
    \* ---- the last call of Validate ----
    vArg,       \* the assertion parameters as the caller passed them
    vNet,       \* what the network did to the POST of this call
    values,     \* the caller's url.Values map (Validate works on this very map)
    grant,      \* result: grant
    id,         \* result: id
    err,        \* result: err
    posts,      \* the POSTs issued during the call
    vBody,      \* the POST's response body: "none", "open" or "closed"
    vOutcome,   \* "none" (no result yet), "returned" or "panic"
    vpc,        \* where the call is: "idle", "post" (waiting in http.Post,
                \* line 162), "read" (waiting in ioutil.ReadAll, line 170), "done"
    \* ---- the current call of RedirectURI ----
    pc,         \* "idle", "discover" (waiting for the answer to a GET, line
                \* 193), "parse" (waiting in Parse, line 207), "read" (waiting
                \* in ioutil.ReadAll, line 238) or "done"
    rArg,       \* the arguments of the call
    uri,        \* the argument of the pending call of discover
    gets,       \* the URIs of the GETs issued during the call (the last MaxHops)
    hop,        \* the parity of the number of GETs issued during the call:
                \* gets keeps the last MaxHops only, hop counts every one of
                \* them, so each GET is a step that changes the state
    resp,       \* the response to the last GET; its body is unread until
                \* bodyRead
    bodyRead,   \* the body of the last response was read (by the HTML parser,
                \* line 207, or by ioutil.ReadAll, line 238)
    bodies,     \* per response obtained: is its body "open" or "closed" (the last MaxHops)
    rEndpoint,  \* endpoint, as getIdentifiers returned it (line 96)
    rClaimed,   \* Claimed, as getIdentifiers returned it (line 96)
    rURL,       \* result: the URL
    rErr,       \* result: the error
    rOutcome    \* "none" (no result yet), "returned" or "panic"

vvars == <<vArg, vNet, values, grant, id, err, posts, vBody, vOutcome, vpc>>
rvars == <<pc, rArg, uri, gets, hop, resp, bodyRead, bodies, rEndpoint, rClaimed, rURL, rErr,
          rOutcome>>
vars == <<vArg, vNet, values, grant, id, err, posts, vBody, vOutcome, vpc,
          pc, rArg, uri, gets, hop, resp, bodyRead, bodies, rEndpoint, rClaimed, rURL, rErr,
          rOutcome>>

(***************************************************************************)
(* Inputs of Validate.                                                     *)
(***************************************************************************)
E1 == <<"h","t","t","p",":","/","/","o","p">>
E2 == <<"h","t","t","p",":","/","/","o","2">>
U1 == <<"h","t","t","p",":","/","/","u","/","1">>
U2 == <<"h","t","t","p",":","/","/","u","/","2">>

ParamKeys == {K_op_endpoint, K_mode, K_claimed_id}

\* the value lists a key of an assertion may carry
ParamPool(key) ==
    IF key = K_op_endpoint THEN {<<<<>>>>, <<E1>>, <<E2, E1>>}
    ELSE IF key = K_mode
    THEN {<<>>, <<<<>>>>, <<id_res>>, <<id_res \o <<"s">>>>, <<check_authentication>>,
          <<id_res, checkid_setup>>}
    ELSE {<<U1>>, <<U2, U1>>}

Assertions ==
    UNION { {v \in [d -> UNION {ParamPool(k) : k \in d}] :
                \A k \in d : v[k] \in ParamPool(k)} : d \in SUBSET ParamKeys }

\* the lines an operator's response is made of
LinePool ==
    { S_ns \o <<":">> \o NS,
      S_ns \o <<":">> \o NS \o <<"/">>,
      S_is_valid \o <<":">> \o S_true,
      S_is_valid \o <<":">> \o <<"f","a","l","s","e">>,
      S_is_valid \o <<":">> \o S_true \o <<":">>,
      <<>> }

RECURSIVE Join(_)
Join(lines) ==
    IF lines = <<>> THEN <<>>
    ELSE IF Len(lines) = 1 THEN lines[1]
    ELSE lines[1] \o <<"\n">> \o Join(Tail(lines))

ResponseBodies ==
    { Join(ls) : ls \in UNION { [1..n -> LinePool] : n \in 0..MaxLines } }

\* What the network did to the POST of a call, as the call learns it:
\* http.Post returns (resp, err), resp being nil when no response was
\* obtained; an error together with a response is what the client returns
\* when it gives up following redirections (the body of that response is
\* closed already).  readErr: ioutil.ReadAll fails; body: what it read.
NoNet == [err |-> Nil, resp |-> FALSE, readErr |-> FALSE, body |-> <<>>]

\* what http.Post (line 162) returns
PostResults ==
    { [err |-> TransportErr, resp |-> FALSE],
      [err |-> TransportErr, resp |-> TRUE],
      [err |-> Nil, resp |-> TRUE] }

\* what ioutil.ReadAll (line 170) returns
ReadResults ==
    { [readErr |-> TRUE, body |-> <<>>] }
    \cup
    { [readErr |-> FALSE, body |-> b] : b \in ResponseBodies }

(***************************************************************************)
(* Validate.                                                               *)
(***************************************************************************)
\* a variant of EndpointMissing that only asks whether the key is present
EndpointMissing_KeyAbsent(v) == K_op_endpoint \notin DOMAIN v

\* line 151: endpoint == ""
EndpointMissing(v) == Get(v, K_op_endpoint) = <<>>

\* a variant of ModeIncorrect that accepts any mode beginning with id_res
ModeIncorrect_Prefix(v) == ~HasPrefix(Get(v, K_mode), id_res)

\* line 156: values.Get("openid.mode") != "id_res"
ModeIncorrect(v) == Get(v, K_mode) # id_res

\* the map after values.Add("openid.mode", "check_authentication")
SetCheckAuthentication_Add(v) ==
    [k \in (DOMAIN v) \cup {K_mode} |->
        IF k = K_mode
        THEN (IF K_mode \in DOMAIN v THEN v[K_mode] ELSE <<>>) \o <<check_authentication>>
        ELSE v[k]]

\* line 160: the map after values.Set("openid.mode", "check_authentication")
SetCheckAuthentication(v) == Set(v, K_mode, check_authentication)

\* line 162: the request http.Post sends
PostRequest(endpoint, v) ==
    [url |-> endpoint, contentType |-> FormMime, body |-> Encode(v)]

\* a variant of NsIncorrect that accepts any ns beginning with the namespace
NsIncorrect_Prefix(kVs) == ~HasPrefix(MapGet(kVs, S_ns), NS)

\* line 177: kVs["ns"] != "http://specs.openid.net/auth/2.0"
NsIncorrect(kVs) == MapGet(kVs, S_ns) # NS

\* a variant of IsValid that accepts any value beginning with true
IsValid_Prefix(kVs) == HasPrefix(MapGet(kVs, S_is_valid), S_true)

\* line 182: kVs["is_valid"] == "true"
IsValid(kVs) == MapGet(kVs, S_is_valid) = S_true

\* a variant of Interpret that sets grant before it checks ns
Interpret_GrantFirst(body, v) ==
    LET kVs == keyValueForm(body) IN
    IF NsIncorrect(kVs)
    THEN [grant |-> IsValid(kVs), id |-> <<>>, err |-> NS_INCORRECT]
    ELSE [grant |-> IsValid(kVs), id |-> Get(v, K_claimed_id), err |-> Nil]

\* lines 176-184: the results once the response body was read
Interpret(body, v) ==
    LET kVs == keyValueForm(body) IN
    IF NsIncorrect(kVs)
    THEN [grant |-> FALSE, id |-> <<>>, err |-> NS_INCORRECT]
    ELSE [grant |-> IsValid(kVs), id |-> Get(v, K_claimed_id), err |-> Nil]

(***************************************************************************)
(* Inputs of RedirectURI and the responses of the servers it asks.         *)
(***************************************************************************)
A_http_equiv ==
    <<"h","t","t","p","-","e","q","u","i","v">>
A_content ==
    <<"c","o","n","t","e","n","t">>
X_XRDS_Location ==
    <<"X","-","X","R","D","S","-","L","o","c","a","t","i","o","n">>
R1 ==
    <<"h","t","t","p",":","/","/","r","p">>
OP1 ==
    <<"h","t","t","p",":","/","/","o","p","/","a">>
OP2 ==
    <<"h","t","t","p",":","/","/","o","p","/","a","?","b","=","c">>
C1 ==
    <<"h","t","t","p",":","/","/","u","/","m","e">>
OtherType ==
    <<"h","t","t","p",":","/","/","o","p","e","n","i","d",".","n","e","t","/","s","r","e","g","/","1",".","0">>
TextPlain ==
    <<"t","e","x","t","/","p","l","a","i","n">>

\* the identifiers a caller passes: a scheme prefix, or none, before a tail
IdTails ==
    { <<>>, <<"a">>, <<"=","a">>, <<"(","a">>, <<"a","#","a">>, <<"#","a">> }

Identifiers ==
    { p \o t : p \in {<<>>, XriPrefix, HttpPrefix, HttpsPrefix}, t \in IdTails }
    \cup { XriPrefix \o XriPrefix \o <<"a">>,
           <<"@","a">>, <<"+","a">>, <<"$","a">>, <<"!","a">>, <<"=","a","#">> }

Realms == {R1}

ReturnPoints == {<<>>, <<"/">>}

\* the Service entries of a discovery document, as xml.Unmarshal fills them
ServicePool ==
    { [Type |-> ServerType, URI |-> OP1, Priority |-> 0],
      [Type |-> ServerType, URI |-> OP2, Priority |-> 1],
      [Type |-> SignonType, URI |-> C1, Priority |-> 0],
      [Type |-> SignonType \o <<"/","x">>, URI |-> U1, Priority |-> 2],
      [Type |-> OtherType, URI |-> U2, Priority |-> 0] }

\* A response body: what reading it gives (readErr: the read fails), what
\* the HTML parser makes of it (parseErr: Parse fails; metas: its meta
\* elements, each the list of its attributes) and what xml.Unmarshal makes
\* of it (services).
BodyOf(readErr, parseErr, metas, services) ==
    [readErr |-> readErr, parseErr |-> parseErr, metas |-> metas, services |-> services]

Attr(name, value) == [Name |-> name, Value |-> value]

XmlBodies ==
    { BodyOf(FALSE, FALSE, <<>>, ss) :
        ss \in UNION { [1..n -> ServicePool] : n \in 0..MaxServices } }
    \cup { BodyOf(TRUE, FALSE, <<>>, <<>>) }

HtmlBodies ==
    { BodyOf(FALSE, FALSE, <<>>, <<>>),
      BodyOf(FALSE, TRUE, <<>>, <<>>),
      BodyOf(FALSE, FALSE,
             << <<Attr(A_http_equiv, X_XRDS_Location), Attr(A_content, U2)>> >>, <<>>),
      BodyOf(FALSE, FALSE,
             << <<Attr(A_http_equiv, X_XRDS_Location)>> >>, <<>>),
      BodyOf(FALSE, FALSE,
             << <<Attr(A_http_equiv, <<"r">>), Attr(A_content, U1)>>,
                <<Attr(A_content, U2), Attr(A_http_equiv, X_XRDS_Location)>> >>, <<>>),
      BodyOf(FALSE, FALSE,
             << <<Attr(A_http_equiv, X_XRDS_Location)>>,
                <<Attr(A_http_equiv, X_XRDS_Location), Attr(A_content, U2)>> >>, <<>>) }

\* A response to a GET: ok is FALSE when the request failed and no response
\* was obtained (http.NewRequest or Client.Do returned an error).
ResponseOf(ctype, xloc, body) ==
    [ok |-> TRUE, ctype |-> ctype, xloc |-> xloc, body |-> body]

NoResp ==
    [ok |-> FALSE, ctype |-> <<>>, xloc |-> <<>>, body |-> BodyOf(FALSE, FALSE, <<>>, <<>>)]

MetaU2 ==
    BodyOf(FALSE, FALSE,
           << <<Attr(A_http_equiv, X_XRDS_Location), Attr(A_content, U2)>> >>, <<>>)

Document1 ==
    BodyOf(FALSE, FALSE, <<>>,
           <<[Type |-> ServerType, URI |-> OP1, Priority |-> 0],
             [Type |-> SignonType, URI |-> C1, Priority |-> 0]>>)

\* every kind of response
Responses ==
    { NoResp }
    \cup { ResponseOf(xrds_mime, <<>>, b) : b \in XmlBodies }
    \cup { ResponseOf(xrds_mime, U1, Document1),
           ResponseOf(xrds_mime \o <<";">>, <<>>, Document1),
           ResponseOf(xrds_mime \o <<";">>, U1, MetaU2) }
    \cup { ResponseOf(c, <<>>, b) : c \in {TextHtml, TextHtml \o <<";">>}, b \in HtmlBodies }
    \cup { ResponseOf(c, U1, b) : c \in {TextHtml, TextPlain}, b \in {MetaU2, Document1} }
    \cup { ResponseOf(c, <<>>, b) : c \in {TextPlain, <<>>}, b \in {MetaU2, Document1} }

\* What the server asked for u may answer.  The server the identifier names
\* may answer anything; the servers a redirection names (U1 by header, U2 by
\* meta tag) answer with a document, a further redirection (to themselves or
\* to each other, so chains may be cyclic), or a failure.
ServerResponses(u) ==
    IF u = U1
    THEN { NoResp,
           ResponseOf(xrds_mime, <<>>, Document1),
           ResponseOf(TextPlain, U1, Document1),
           ResponseOf(TextHtml, <<>>, MetaU2),
           ResponseOf(TextPlain, <<>>, MetaU2) }
    ELSE IF u = U2
    THEN { NoResp,
           ResponseOf(xrds_mime, U1, Document1),
           ResponseOf(TextHtml, U1, MetaU2),
           ResponseOf(TextHtml, <<>>, MetaU2),
           ResponseOf(TextHtml, <<>>, BodyOf(FALSE, TRUE, <<>>, <<>>)),
           ResponseOf(xrds_mime, <<>>, BodyOf(TRUE, FALSE, <<>>, <<>>)) }
    ELSE Responses

(***************************************************************************)
(* RedirectURI: normalisation of the identifier (lines 72-89).             *)
(***************************************************************************)
\* lines 73-75
StripXri(identifier) ==
    IF HasPrefix(identifier, XriPrefix) THEN SliceFrom(identifier, 6) ELSE identifier

\* lines 265-272
runeIs(a, b) == \E i \in 1..Len(b) : b[i] = a

\* line 79: identifier[0] of an empty string is an index out of range
IndexPanics(identifier) == Len(identifier) = 0

\* lines 79-83
AddScheme(identifier) ==
    IF runeIs(identifier[1], xri_global_context_symbol)
    THEN XriProxy \o identifier
    ELSE IF ~HasPrefix(identifier, HttpPrefix) /\ ~HasPrefix(identifier, HttpsPrefix)
    THEN HttpPrefix \o identifier
    ELSE identifier

\* lines 87-89
StripFragment(identifier) ==
    LET index == Index(identifier, "#") IN
    IF index # -1 THEN SliceFrom(identifier, index) ELSE identifier

\* lines 73-89: the argument RedirectURI passes to discover
Normalize(identifier) == StripFragment(AddScheme(StripXri(identifier)))

(***************************************************************************)
(* discover (lines 187-219): one GET and what its response leads to.       *)
(***************************************************************************)
YadisErr == "Could not locate Yadis document!"
\* the error h5.Parser.Parse returns
HtmlParseErr == "html parse error"

HasAttr(elm, name, value) ==
    \E i \in 1..Len(elm) : elm[i].Name = name /\ elm[i].Value = value

\* line 221: the elements meta[http-equiv=X-XRDS-Location] of the tree
RECURSIVE yadisGetter(_)
yadisGetter(metas) ==
    IF metas = <<>> THEN <<>>
    ELSE (IF HasAttr(metas[1], A_http_equiv, X_XRDS_Location) THEN <<metas[1]>> ELSE <<>>)
         \o yadisGetter(Tail(metas))

\* lines 226-230: the value of the first attribute named "content"
RECURSIVE ContentOf(_)
ContentOf(attrs) ==
    IF attrs = <<>> THEN [loc |-> <<>>, ok |-> FALSE]
    ELSE IF attrs[1].Name = A_content THEN [loc |-> attrs[1].Value, ok |-> TRUE]
    ELSE ContentOf(Tail(attrs))

\* the content attribute taken from the last matching element
discoverFromHTMLNode_LastMatch(metas) ==
    LET r == yadisGetter(metas) IN
    IF Len(r) > 0 THEN ContentOf(r[Len(r)]) ELSE [loc |-> <<>>, ok |-> FALSE]

\* lines 223-233
discoverFromHTMLNode(metas) ==
    LET r == yadisGetter(metas) IN
    IF Len(r) > 0 THEN ContentOf(r[1]) ELSE [loc |-> <<>>, ok |-> FALSE]

\* discover with the X-Xrds-Location header examined before the Content-Type
discoverStep_HeaderFirst(r) ==
    IF ~r.ok
    THEN [kind |-> "error", next |-> <<>>, err |-> TransportErr, hasBody |-> FALSE]
    ELSE IF r.xloc # <<>>
    THEN [kind |-> "recurse", next |-> r.xloc, err |-> Nil, hasBody |-> FALSE]
    ELSE IF HasPrefix(r.ctype, xrds_mime)
    THEN [kind |-> "document", next |-> <<>>, err |-> Nil, hasBody |-> TRUE]
    ELSE IF HasPrefix(r.ctype, TextHtml)
    THEN [kind |-> "parse", next |-> <<>>, err |-> Nil, hasBody |-> FALSE]
    ELSE [kind |-> "error", next |-> <<>>, err |-> YadisErr, hasBody |-> TRUE]

\* discover with the HTML body searched before the X-Xrds-Location header
discoverStep_HtmlFirst(r) ==
    IF ~r.ok
    THEN [kind |-> "error", next |-> <<>>, err |-> TransportErr, hasBody |-> FALSE]
    ELSE IF HasPrefix(r.ctype, xrds_mime)
    THEN [kind |-> "document", next |-> <<>>, err |-> Nil, hasBody |-> TRUE]
    ELSE IF HasPrefix(r.ctype, TextHtml)
    THEN [kind |-> "parse", next |-> <<>>, err |-> Nil, hasBody |-> FALSE]
    ELSE IF r.xloc # <<>>
    THEN [kind |-> "recurse", next |-> r.xloc, err |-> Nil, hasBody |-> FALSE]
    ELSE [kind |-> "error", next |-> <<>>, err |-> YadisErr, hasBody |-> TRUE]

\* discover with the body searched for the meta tag whatever the Content-Type
discoverStep_AnyType(r) ==
    IF ~r.ok
    THEN [kind |-> "error", next |-> <<>>, err |-> TransportErr, hasBody |-> FALSE]
    ELSE IF HasPrefix(r.ctype, xrds_mime)
    THEN [kind |-> "document", next |-> <<>>, err |-> Nil, hasBody |-> TRUE]
    ELSE IF r.xloc # <<>>
    THEN [kind |-> "recurse", next |-> r.xloc, err |-> Nil, hasBody |-> FALSE]
    ELSE [kind |-> "parse", next |-> <<>>, err |-> Nil, hasBody |-> FALSE]

\* lines 193-205 and 217: what discover does once Client.Do returned, from
\* the headers of the response r alone:
\*   "document": return resp.Body, nil
\*   "recurse":  return discover(next)
\*   "parse":    parse the body as HTML (line 207)
\*   "error":    return with err (hasBody: the body is returned with it)
discoverStep(r) ==
    IF ~r.ok
    THEN [kind |-> "error", next |-> <<>>, err |-> TransportErr, hasBody |-> FALSE]
    ELSE IF HasPrefix(r.ctype, xrds_mime)
    THEN [kind |-> "document", next |-> <<>>, err |-> Nil, hasBody |-> TRUE]
    ELSE IF r.xloc # <<>>
    THEN [kind |-> "recurse", next |-> r.xloc, err |-> Nil, hasBody |-> FALSE]
    ELSE IF HasPrefix(r.ctype, TextHtml)
    THEN [kind |-> "parse", next |-> <<>>, err |-> Nil, hasBody |-> FALSE]
    ELSE [kind |-> "error", next |-> <<>>, err |-> YadisErr, hasBody |-> TRUE]

\* lines 207-217: what discover does once Parse returned, body being what
\* the parser made of the response's body
parseStep(body) ==
    IF body.parseErr
    THEN [kind |-> "error", next |-> <<>>, err |-> HtmlParseErr, hasBody |-> FALSE]
    ELSE IF discoverFromHTMLNode(body.metas).ok
    THEN [kind |-> "recurse", next |-> discoverFromHTMLNode(body.metas).loc,
          err |-> Nil, hasBody |-> FALSE]
    ELSE [kind |-> "error", next |-> <<>>, err |-> YadisErr, hasBody |-> TRUE]

\* the response r as discover knows it when Client.Do returns: its body is
\* still to be read
Unread(r) == [r EXCEPT !.body = BodyOf(FALSE, FALSE, <<>>, <<>>)]

(***************************************************************************)
(* getIdentifiers (lines 235-263) and the redirect URL (lines 101-116).    *)
(***************************************************************************)
\* the loop over the Service entries keeping the first match of each role
RECURSIVE ScanServices_FirstWins(_, _, _)
ScanServices_FirstWins(services, OP, Claimed) ==
    IF services = <<>> THEN [OP |-> OP, Claimed |-> Claimed]
    ELSE LET v == services[1] IN
         IF HasPrefix(v.Type, ServerType)
         THEN ScanServices_FirstWins(Tail(services), IF OP = <<>> THEN v.URI ELSE OP, Claimed)
         ELSE IF HasPrefix(v.Type, SignonType)
         THEN ScanServices_FirstWins(Tail(services), OP,
                                     IF Claimed = <<>> THEN v.URI ELSE Claimed)
         ELSE ScanServices_FirstWins(Tail(services), OP, Claimed)

\* lines 254-260: the loop over the Service entries
RECURSIVE ScanServices(_, _, _)
ScanServices(services, OP, Claimed) ==
    IF services = <<>> THEN [OP |-> OP, Claimed |-> Claimed]
    ELSE LET v == services[1] IN
         IF HasPrefix(v.Type, ServerType)
         THEN ScanServices(Tail(services), v.URI, Claimed)
         ELSE IF HasPrefix(v.Type, SignonType)
         THEN ScanServices(Tail(services), OP, v.URI)
         ELSE ScanServices(Tail(services), OP, Claimed)

\* lines 235-263
getIdentifiers(xrds) ==
    IF xrds.readErr
    THEN [OP |-> <<>>, Claimed |-> <<>>, e |-> ReadErr]
    ELSE LET r == ScanServices(xrds.services, <<>>, <<>>)
         IN [OP |-> r.OP, Claimed |-> r.Claimed, e |-> Nil]

\* the claimed identity passed on as extracted, without the sentinel
ClaimedOrSelect_AsExtracted(Claimed) == Claimed

\* lines 101-103
ClaimedOrSelect(Claimed) == IF Claimed = <<>> THEN IdentifierSelect ELSE Claimed

\* the endpoint always joined with '?'
JoinEndpoint_AlwaysQuestion(endpoint) == endpoint \o <<"?">>

\* lines 104-108
JoinEndpoint(endpoint) ==
    IF ~ContainsRune(endpoint, "?") THEN endpoint \o <<"?">> ELSE endpoint \o <<"&">>

\* lines 109-116: the query parameters of the redirect URL
RedirectValues(Claimed, realm, returnPoint) ==
    [k \in {K_claimed_id, K_identity, K_realm, K_return_to, K_mode, K_ns} |->
        IF k = K_claimed_id THEN <<Claimed>>
        ELSE IF k = K_identity THEN <<Claimed>>
        ELSE IF k = K_realm THEN <<realm>>
        ELSE IF k = K_return_to THEN <<realm \o returnPoint>>
        ELSE IF k = K_mode THEN <<checkid_setup>>
        ELSE <<NS>>]

\* lines 96-116: RedirectURI once discover returned the document xrds
BuildRedirect(xrds, realm, returnPoint) ==
    LET ids == getIdentifiers(xrds) IN
    IF ids.e # Nil
    THEN [endpoint |-> ids.OP, Claimed |-> ids.Claimed, url |-> <<>>, err |-> ids.e]
    ELSE [endpoint |-> ids.OP, Claimed |-> ids.Claimed,
          url |-> JoinEndpoint(ids.OP)
                  \o Encode(RedirectValues(ClaimedOrSelect(ids.Claimed), realm, returnPoint)),
          err |-> Nil]

\* the history seq with x added; the model keeps the last MaxHops entries
Record(seq, x) == IF Len(seq) < MaxHops THEN Append(seq, x) ELSE Append(Tail(seq), x)

RInit ==
    /\ pc = "idle"
    /\ rArg = [identifier |-> <<>>, realm |-> <<>>, returnPoint |-> <<>>]
    /\ uri = <<>>
    /\ gets = <<>>
    /\ hop = 0
    /\ resp = NoResp
    /\ bodyRead = FALSE
    /\ bodies = <<>>
    /\ rEndpoint = <<>>
    /\ rClaimed = <<>>
    /\ rURL = <<>>
    /\ rErr = Nil
    /\ rOutcome = "none"

VInit ==
    /\ vArg = <<>>
    /\ vNet = NoNet
    /\ values = <<>>
    /\ grant = FALSE
    /\ id = <<>>
    /\ err = Nil
    /\ posts = <<>>
    /\ vBody = "none"
    /\ vOutcome = "none"
    /\ vpc = "idle"

Init == VInit /\ RInit

\* A caller calls Validate(v): lines 149-162, up to the POST being sent.  The
\* call works on the caller's map: from line 160 on the map holds the mode
\* check_authentication, while the call waits for the operator.
\* Calls share no state, so a behaviour follows one call of one entry point.
Validate ==
    /\ pc = "idle" /\ vpc = "idle"
    /\ \E v \in Assertions :
         /\ vArg' = v
         /\ IF EndpointMissing(v)
            THEN /\ err' = NO_OP_ENDPOINT
                 /\ vOutcome' = "returned"
                 /\ vpc' = "done"
                 /\ values' = v
                 /\ posts' = <<>>
            ELSE IF ModeIncorrect(v)
            THEN /\ err' = INCORRECT_MODE
                 /\ vOutcome' = "returned"
                 /\ vpc' = "done"
                 /\ values' = v
                 /\ posts' = <<>>
            ELSE /\ values' = SetCheckAuthentication(v)
                 /\ posts' = <<PostRequest(Get(v, K_op_endpoint), SetCheckAuthentication(v))>>
                 /\ vpc' = "post"
                 /\ UNCHANGED <<err, vOutcome>>
    /\ UNCHANGED <<vNet, grant, id, vBody>>
    /\ UNCHANGED rvars

\* http.Post returns (lines 162-168): resp and err are assigned, the deferred
\* resp.Body.Close() is set up (line 164: resp is nil when no response was
\* obtained, and evaluating resp.Body panics), and an error returns.
PostReturns ==
    /\ vpc = "post"
    /\ \E p \in PostResults :
         /\ vNet' = [vNet EXCEPT !.err = p.err, !.resp = p.resp]
         /\ err' = p.err
         /\ IF ~p.resp
            THEN /\ vOutcome' = "panic"
                 /\ vpc' = "done"
                 /\ UNCHANGED vBody
            ELSE IF p.err # Nil
            THEN /\ vOutcome' = "returned"
                 /\ vpc' = "done"
                 /\ vBody' = "closed"
            ELSE /\ vpc' = "read"
                 /\ vBody' = "open"
                 /\ UNCHANGED vOutcome
    /\ UNCHANGED <<vArg, values, grant, id, posts>>
    /\ UNCHANGED rvars

\* ioutil.ReadAll returns (lines 170-184): the response is interpreted, the
\* claimed identity is read from the caller's map as it is now (line 183),
\* and the deferred Close runs at the return.
ReadAllReturns ==
    /\ vpc = "read"
    /\ \E n \in ReadResults :
         /\ vNet' = [vNet EXCEPT !.readErr = n.readErr, !.body = n.body]
         /\ IF n.readErr
            THEN /\ err' = ReadErr
                 /\ UNCHANGED <<grant, id>>
            ELSE LET r == Interpret(n.body, values) IN
                 /\ grant' = r.grant
                 /\ id' = r.id
                 /\ err' = r.err
    /\ vBody' = "closed"
    /\ vOutcome' = "returned"
    /\ vpc' = "done"
    /\ UNCHANGED <<vArg, values, posts>>
    /\ UNCHANGED rvars

\* A caller calls RedirectURI(identifier, realm, returnPoint): lines 71-91,
\* up to the call of discover.
RedirectURI ==
    /\ pc = "idle" /\ vpc = "idle"
    /\ \E identifier \in Identifiers, realm \in Realms, returnPoint \in ReturnPoints :
         /\ rArg' = [identifier |-> identifier, realm |-> realm,
                     returnPoint |-> returnPoint]
         /\ IF IndexPanics(StripXri(identifier))
            THEN /\ pc' = "done"
                 /\ rOutcome' = "panic"
                 /\ uri' = <<>>
            ELSE /\ pc' = "discover"
                 /\ rOutcome' = "none"
                 /\ uri' = Normalize(identifier)
    /\ UNCHANGED <<gets, hop, resp, bodyRead, bodies, rEndpoint, rClaimed, rURL, rErr>>
    /\ UNCHANGED vvars

\* the history seq with its last entry closed
Closed(seq) == [seq EXCEPT ![Len(seq)] = "closed"]

\* One call of discover(uri), up to its decision on the headers of the
\* response (lines 187-205): Client.Do returns; the response is a document
\* (discover returns its body, and RedirectURI calls getIdentifiers, which
\* starts to read it), or it names a location in a header (discover is called
\* again), or it is text/html (its body is parsed), or discovery fails.
\* Nothing bounds the number of calls.
Discover ==
    /\ pc = "discover"
    /\ \E h \in { Unread(r) : r \in ServerResponses(uri) } :
         LET d == discoverStep(h) IN
         /\ gets' = Record(gets, uri)
         /\ hop' = 1 - hop
         /\ resp' = h
         /\ bodyRead' = FALSE
         /\ bodies' = IF h.ok THEN Record(bodies, "open") ELSE bodies
         /\ IF d.kind = "recurse"
            THEN /\ uri' = d.next
                 /\ UNCHANGED <<pc, rURL, rErr, rOutcome>>
            ELSE IF d.kind = "document"
            THEN /\ pc' = "read"
                 /\ UNCHANGED <<uri, rURL, rErr, rOutcome>>
            ELSE IF d.kind = "parse"
            THEN /\ pc' = "parse"
                 /\ UNCHANGED <<uri, rURL, rErr, rOutcome>>
            ELSE /\ rURL' = <<>>
                 /\ rErr' = d.err
                 /\ rOutcome' = "returned"
                 /\ pc' = "done"
                 /\ UNCHANGED uri
    /\ UNCHANGED <<rArg, rEndpoint, rClaimed>>
    /\ UNCHANGED vvars

\* Parse returns (lines 207-217): the body of the text/html response was read
\* and parsed; discover is called again on the location its meta tag names,
\* or discovery fails.  The body stays open.
ParseReturns ==
    /\ pc = "parse"
    /\ \E r \in ServerResponses(uri) :
         /\ Unread(r) = resp
         /\ resp' = r
         /\ bodyRead' = TRUE
         /\ LET d == parseStep(r.body) IN
            IF d.kind = "recurse"
            THEN /\ uri' = d.next
                 /\ pc' = "discover"
                 /\ UNCHANGED <<rURL, rErr, rOutcome>>
            ELSE /\ rURL' = <<>>
                 /\ rErr' = d.err
                 /\ rOutcome' = "returned"
                 /\ pc' = "done"
                 /\ UNCHANGED uri
    /\ UNCHANGED <<rArg, gets, hop, bodies, rEndpoint, rClaimed>>
    /\ UNCHANGED vvars

\* ioutil.ReadAll returns in getIdentifiers (line 238), which RedirectURI
\* called on the document (line 96): the Service entries are scanned, the
\* body is closed, and RedirectURI runs to its end (lines 98-116).
ReadDocument ==
    /\ pc = "read"
    /\ \E r \in ServerResponses(uri) :
         /\ Unread(r) = resp
         /\ resp' = r
         /\ bodyRead' = TRUE
         /\ LET b == BuildRedirect(r.body, rArg.realm, rArg.returnPoint) IN
            /\ rEndpoint' = b.endpoint
            /\ rClaimed' = b.Claimed
            /\ rURL' = b.url
            /\ rErr' = b.err
    /\ bodies' = Closed(bodies)
    /\ rOutcome' = "returned"
    /\ pc' = "done"
    /\ UNCHANGED <<rArg, uri, gets, hop>>
    /\ UNCHANGED vvars

Next ==
    \/ Validate \/ PostReturns \/ ReadAllReturns
    \/ RedirectURI \/ Discover \/ ParseReturns \/ ReadDocument

Spec == Init /\ [][Next]_vars

\* The two entry points share no state: each is also checked by itself.
ValidateNext == Validate \/ PostReturns \/ ReadAllReturns

ValidateSpec == Init /\ [][ValidateNext]_vars

RedirectNext == RedirectURI \/ Discover \/ ParseReturns \/ ReadDocument

RedirectSpec == Init /\ [][RedirectNext]_vars

\* Every answer is a step that changes the state, also the answer of a server
\* that redirects to itself once gets holds that URI MaxHops times.
AnswersAreSteps == [][(Discover \/ ParseReturns \/ ReadDocument) => vars' # vars]_vars

\* line 238 seen from the caller: ioutil.ReadAll returns and the call ends.
\* ReadDocument is the only action that leaves pc = "read", and it always
\* moves pc to "done".
ReadDocumentReturns == pc = "read" /\ pc' = "done"

\* The servers answer: a GET that was sent is answered, and a body that is
\* being read arrives (or the read fails).  No step of the three leaves the
\* state as it was (Discover flips hop, ParseReturns sets bodyRead,
\* ReadDocument moves pc), so the conditions ask for the answer itself and
\* rule out no run in which every GET is answered, however often a server
\* redirects to itself.
FairRedirectSpec ==
    /\ RedirectSpec
    /\ WF_vars(Discover)
    /\ WF_vars(ParseReturns)
    /\ WF_pc(ReadDocumentReturns)

(***************************************************************************)
(* The properties.  They speak of the inputs and the observable results of *)
(* a call, in terms of their own: the parameters of an assertion           *)
(* (ParamPresent, ParamValue) and the key:value entries of a response      *)
(* (ResponseMaps).                                                         *)
(***************************************************************************)
\* the assertion v carries a value for key
ParamPresent(v, key) == key \in DOMAIN v /\ v[key] # <<>>

\* the (first) value the assertion v carries for key, "" when it has none
ParamValue(v, key) == IF ParamPresent(v, key) THEN v[key][1] ELSE <<>>

\* the lines of body that are key:value entries for key
EntryLines(body, key) ==
    LET lines == Split(body, "\n") IN
    { i \in 1..Len(lines) :
        /\ ContainsRune(lines[i], ":")
        /\ SliceTo(lines[i], Index(lines[i], ":")) = key }

\* the response body maps key to exactly value: its last entry for key
\* reads key:value
ResponseMaps(body, key, value) ==
    LET lines == Split(body, "\n")
        es == EntryLines(body, key)
    IN /\ es # {}
       /\ LET i == CHOOSE i \in es : \A j \in es : j <= i
          IN SliceFrom(lines[i], Index(lines[i], ":") + 1) = value

\* the call of Validate issued a POST and read the whole response to it
ResponseRead ==
    /\ vOutcome # "none"
    /\ posts # <<>>
    /\ vNet.resp /\ vNet.err = Nil /\ ~vNet.readErr

\* C1: when the POST of Validate fails at the transport level, Validate
\* returns (it does not crash) a non-nil error, the transport's, with
\* granted false, and a response body that was obtained is closed.
C1_TransportFailureReturned ==
    (vOutcome # "none" /\ posts # <<>> /\ vNet.err = TransportErr) =>
        /\ vOutcome = "returned"
        /\ err = TransportErr
        /\ grant = FALSE
        /\ (vNet.resp => vBody = "closed")

\* C2: for an identifier that contains '#', the URI of the first discovery
\* GET is the identifier with its scheme normalised (xri:// stripped,
\* proxy or http:// prepended), cut before its first '#'.
C2_FragmentStripped ==
    (Len(gets) = 1 /\ ContainsRune(rArg.identifier, "#")) =>
        LET n == AddScheme(StripXri(rArg.identifier))
        IN /\ gets[1] = SliceTo(n, Index(n, "#"))
           /\ ~ContainsRune(gets[1], "#")

\* C3: a call of Validate whose assertion has no openid.op_endpoint, or an
\* empty one, fails with NO_OP_ENDPOINT and issues no POST, whatever the
\* other parameters are.
C3_NoOpEndpointNoPost ==
    (vOutcome # "none" /\ ParamValue(vArg, K_op_endpoint) = <<>>) =>
        /\ vOutcome = "returned"
        /\ err = NO_OP_ENDPOINT
        /\ grant = FALSE
        /\ posts = <<>>

\* C3 happens: the endpoint is present but empty, the mode is id_res.
C3_Witness ==
    /\ vOutcome = "returned"
    /\ ParamPresent(vArg, K_op_endpoint)
    /\ ParamValue(vArg, K_op_endpoint) = <<>>
    /\ ParamValue(vArg, K_mode) = id_res
    /\ err = NO_OP_ENDPOINT

\* C4: when Validate returns without error, granted is true exactly when
\* the response maps is_valid to exactly "true", and the id returned is the
\* openid.claimed_id of the assertion as the caller passed it.
C4_GrantIffIsValidTrue ==
    (vOutcome = "returned" /\ err = Nil) =>
        /\ grant = ResponseMaps(vNet.body, S_is_valid, S_true)
        /\ id = ParamValue(vArg, K_claimed_id)

\* C4 happens: a grant, after an earlier is_valid entry that was not "true",
\* of an assertion with two values for openid.claimed_id.
C4_Witness ==
    /\ vOutcome = "returned" /\ err = Nil
    /\ grant = TRUE
    /\ id = U2
    /\ Cardinality(EntryLines(vNet.body, S_is_valid)) = 2

\* C5: when the response that was read has no ns entry, or one that is not
\* exactly http://specs.openid.net/auth/2.0, Validate fails with
\* NS_INCORRECT, also when the response says is_valid:true.
C5_NamespaceMismatch ==
    (ResponseRead /\ ~ResponseMaps(vNet.body, S_ns, NS)) =>
        /\ vOutcome = "returned"
        /\ err = NS_INCORRECT
        /\ grant = FALSE

\* C5 happens: a response without any ns entry that says is_valid:true.
C5_Witness ==
    /\ ResponseRead
    /\ EntryLines(vNet.body, S_ns) = {}
    /\ ResponseMaps(vNet.body, S_is_valid, S_true)
    /\ err = NS_INCORRECT

\* C6: whenever Validate has an error to return, granted is false; granted
\* is true only after one POST whose response was read and maps ns to the
\* namespace and is_valid to exactly "true".
C6_ErrorImpliesNotGranted ==
    /\ (err # Nil => grant = FALSE)
    /\ (grant = TRUE =>
            /\ ResponseRead
            /\ Len(posts) = 1
            /\ ResponseMaps(vNet.body, S_ns, NS)
            /\ ResponseMaps(vNet.body, S_is_valid, S_true))

\* C6 happens: an error is returned for a response that says is_valid:true
\* under an ns that is not the namespace.
C6_Witness ==
    /\ vOutcome = "returned"
    /\ err # Nil
    /\ EntryLines(vNet.body, S_ns) # {}
    /\ ResponseMaps(vNet.body, S_is_valid, S_true)
    /\ grant = FALSE

\* C7: a call of Validate whose assertion has a non-empty
\* openid.op_endpoint and an openid.mode that is not exactly id_res (or
\* none) fails with INCORRECT_MODE and issues no POST.
C7_IncorrectModeNoPost ==
    (/\ vOutcome # "none"
     /\ ParamValue(vArg, K_op_endpoint) # <<>>
     /\ ParamValue(vArg, K_mode) # id_res) =>
        /\ vOutcome = "returned"
        /\ err = INCORRECT_MODE
        /\ grant = FALSE
        /\ posts = <<>>

\* C7 happens: the mode begins with id_res but is longer.
C7_Witness ==
    /\ vOutcome = "returned"
    /\ ParamValue(vArg, K_op_endpoint) # <<>>
    /\ ParamValue(vArg, K_mode) = id_res \o <<"s">>
    /\ err = INCORRECT_MODE

\* C8: after a call of Validate, on every exit path, the caller's
\* parameter set is what it was before the call.
C8_CallerValuesUnchanged ==
    vOutcome # "none" => values = vArg

\* C9: RedirectURI called with the empty identifier returns an error and
\* the empty URL (it does not crash), and issues no GET.
C9_EmptyIdentifierError ==
    (pc = "done" /\ rArg.identifier = <<>>) =>
        /\ rOutcome = "returned"
        /\ rErr # Nil
        /\ rURL = <<>>
        /\ gets = <<>>

\* C10: when RedirectURI returns, with a URL or with an error, the body of
\* every response a GET of the call obtained is closed.
C10_BodiesClosed ==
    rOutcome = "returned" =>
        \A i \in 1..Len(bodies) : bodies[i] = "closed"

\* ---------------------------------------------------------------------------
\* C11: discovery always terminates: every call of discover that was made
\* leads to the return of RedirectURI, also when the servers' redirections
\* form a cycle or never end.
C11_DiscoveryTerminates == (pc = "discover") ~> (pc = "done")

\* ---------------------------------------------------------------------------
\* Claim-side reading of a response to a discovery GET (resp is the response
\* to the last GET of the call; before the first GET there is none).
Answered == Len(gets) >= 1 /\ resp.ok

\* the Content-Type of the last response begins with application/xrds+xml
IsXrds == Answered /\ Len(resp.ctype) >= Len(xrds_mime)
          /\ SubSeq(resp.ctype, 1, Len(xrds_mime)) = xrds_mime

\* the Content-Type of the last response begins with text/html
IsHtml == Answered /\ Len(resp.ctype) >= Len(TextHtml)
          /\ SubSeq(resp.ctype, 1, Len(TextHtml)) = TextHtml

\* the state of the body of the last response
LastBody == bodies[Len(bodies)]

\* C12: a response whose Content-Type begins with application/xrds+xml ends
\* discovery, also when it carries a non-empty X-Xrds-Location header: no
\* call of discover is pending or made; its body is the document, which the
\* extractor reads and then closes; discover reports no error, so the only
\* error RedirectURI can then return is the extractor's read error.
C12_XrdsIsTerminal ==
    IsXrds =>
        /\ pc \in {"read", "done"}
        /\ bodies # <<>>
        /\ pc = "read" =>
            /\ ~bodyRead
            /\ LastBody = "open"
            /\ rOutcome = "none"
        /\ pc = "done" =>
            /\ bodyRead
            /\ LastBody = "closed"
            /\ rOutcome = "returned"
            /\ rErr = (IF resp.body.readErr THEN ReadErr ELSE Nil)
            /\ (~resp.body.readErr => rURL # <<>>)

\* an XRDS response with a non-empty X-Xrds-Location header ended discovery
C12_Witness ==
    /\ IsXrds
    /\ resp.xloc # <<>>
    /\ pc = "done"
    /\ bodyRead
    /\ rErr = Nil
    /\ rURL # <<>>

\* an XRDS response was received and its body is being read
C12_WitnessReading ==
    /\ IsXrds
    /\ resp.xloc # <<>>
    /\ pc = "read"
    /\ LastBody = "open"

\* ---------------------------------------------------------------------------
\* the last response is not XRDS and carries a non-empty X-Xrds-Location
HeaderRedirect == Answered /\ ~IsXrds /\ resp.xloc # <<>>

\* the server asked last may send, with the headers of the last response,
\* a body holding a meta tag with http-equiv=X-XRDS-Location and content u
ServerSendsMetaTo(u) ==
    \E r \in ServerResponses(gets[Len(gets)]) :
        /\ r.ok /\ r.ctype = resp.ctype /\ r.xloc = resp.xloc
        /\ \E i \in 1..Len(r.body.metas) :
             \E j, k \in 1..Len(r.body.metas[i]) :
                /\ r.body.metas[i][j].Name = A_http_equiv
                /\ r.body.metas[i][j].Value = X_XRDS_Location
                /\ r.body.metas[i][k].Name = A_content
                /\ r.body.metas[i][k].Value = u

\* C13: a response that is not XRDS and carries a non-empty X-Xrds-Location
\* header u leaves exactly one call pending, discover(u); its body is not
\* read (so a meta tag in it is not followed), whatever its Content-Type is;
\* and the step that follows is a single GET addressed to u.
C13_HeaderRedirectsOnce ==
    /\ [](HeaderRedirect =>
            /\ pc = "discover"
            /\ ~bodyRead
            /\ rOutcome = "none"
            /\ uri = resp.xloc)
    /\ [][HeaderRedirect =>
            /\ Len(gets') = IF Len(gets) < MaxHops THEN Len(gets) + 1 ELSE MaxHops
            /\ gets'[Len(gets')] = resp.xloc
            /\ \A i \in 1..(Len(gets') - 1) :
                 gets'[i] = gets[i + (IF Len(gets) < MaxHops THEN 0 ELSE 1)]]_vars

\* a text/html response with the header naming U1, from a server that sends
\* a meta tag naming U2 in the body, left the call discover(U1) pending
C13_Witness ==
    /\ HeaderRedirect
    /\ IsHtml
    /\ resp.xloc = U1
    /\ ServerSendsMetaTo(U2)
    /\ ~bodyRead
    /\ pc = "discover"
    /\ uri = U1

\* ---------------------------------------------------------------------------
\* the element elm has an attribute of that name and value
ElmHas(elm, name, value) ==
    \E j \in 1..Len(elm) : elm[j].Name = name /\ elm[j].Value = value

\* the element elm has an attribute of that name
ElmHasName(elm, name) == \E j \in 1..Len(elm) : elm[j].Name = name

\* the body of the last response holds a meta tag with
\* http-equiv=X-XRDS-Location that has a content attribute
HasUsableMeta ==
    \E i \in 1..Len(resp.body.metas) :
        /\ ElmHas(resp.body.metas[i], A_http_equiv, X_XRDS_Location)
        /\ ElmHasName(resp.body.metas[i], A_content)

\* the last response is not XRDS, has no X-Xrds-Location header and is not
\* text/html with a usable meta tag (a text/html body was read and holds none)
NoLocation ==
    /\ Answered /\ ~IsXrds /\ resp.xloc = <<>>
    /\ IsHtml => (bodyRead /\ ~HasUsableMeta)

\* RedirectURI returned the empty URL with the error e, no call pending
FailedWith(e) ==
    /\ pc = "done"
    /\ rOutcome = "returned"
    /\ rErr = e
    /\ rURL = <<>>

\* C14 as stated: every response that names no location fails discovery with
\* DiscoveryFailed ("Could not locate Yadis document!"), and RedirectURI
\* returns the empty URL with that error and issues no further GET.
C14_NoLocationFails == NoLocation => FailedWith(YadisErr)

\* C14 amended: the same, for responses whose text/html body the HTML parser
\* accepted; when the parser fails on a text/html body, RedirectURI returns
\* the empty URL with the parser's error, and no further GET is issued.
C14_NoLocationFailsParsed ==
    /\ (NoLocation /\ ~(IsHtml /\ resp.body.parseErr)) => FailedWith(YadisErr)
    /\ (NoLocation /\ IsHtml /\ resp.body.parseErr) => FailedWith(HtmlParseErr)

\* a text/plain response, from a server that sends a usable meta tag in the
\* body, failed discovery; the body was not read
C14_Witness ==
    /\ NoLocation
    /\ resp.ctype = TextPlain
    /\ ServerSendsMetaTo(U2)
    /\ ~bodyRead
    /\ FailedWith(YadisErr)
    /\ Len(gets) = 1

\* a text/html body that was read and holds no meta tag failed discovery
C14_WitnessHtml ==
    /\ NoLocation
    /\ IsHtml
    /\ bodyRead
    /\ ~resp.body.parseErr
    /\ resp.body.metas = <<>>
    /\ FailedWith(YadisErr)

\* ---------------------------------------------------------------------------
\* s begins with p
Begins(s, p) == Len(s) >= Len(p) /\ SubSeq(s, 1, Len(p)) = p

\* the reference normalisation of an identifier: one leading xri:// is
\* stripped; a first character among = @ + $ ! ( selects the XRI proxy;
\* otherwise http:// is prepended unless the value begins with http:// or
\* https://
RefNormalize(identifier) ==
    LET s == IF Begins(identifier, XriPrefix)
             THEN SubSeq(identifier, Len(XriPrefix) + 1, Len(identifier))
             ELSE identifier
    IN IF s # <<>> /\ s[1] \in {"=", "@", "+", "$", "!", "("}
       THEN XriProxy \o s
       ELSE IF Begins(s, HttpPrefix) \/ Begins(s, HttpsPrefix)
       THEN s
       ELSE HttpPrefix \o s

\* the identifier of the call is non-empty and holds no '#'
PlainIdentifier ==
    /\ pc # "idle"
    /\ rArg.identifier # <<>>
    /\ \A i \in 1..Len(rArg.identifier) : rArg.identifier[i] # "#"

\* C15: for every non-empty identifier without '#', RedirectURI reaches its
\* first discovery GET (it does not crash before it), and the URI of that GET
\* is the reference normalisation of the identifier.
C15_FirstGetNormalized ==
    PlainIdentifier =>
        /\ rOutcome # "panic"
        /\ (Len(gets) = 0 /\ pc = "discover" => uri = RefNormalize(rArg.identifier))
        /\ (Len(gets) = 1 => gets[1] = RefNormalize(rArg.identifier))

\* C15, for the calls that get as far as a GET: the URI of the first GET is
\* the reference normalisation of the identifier.
C15_FirstGetNormalizedWhenIssued ==
    (PlainIdentifier /\ Len(gets) = 1) => gets[1] = RefNormalize(rArg.identifier)

\* ---------------------------------------------------------------------------
\* the positions of the Service entries whose type starts with t
Matching(services, t) == { i \in 1..Len(services) : Begins(services[i].Type, t) }

\* the URI of the last Service entry whose type starts with t, or ""
LastURI(services, t) ==
    IF Matching(services, t) = {} THEN <<>>
    ELSE services[CHOOSE i \in Matching(services, t) :
                    \A j \in Matching(services, t) : j <= i].URI

\* the last response is a discovery document the extractor could read
DocumentRead == IsXrds /\ bodyRead /\ ~resp.body.readErr

\* C16: for every discovery document the extractor reads, the operator
\* endpoint is the URI of the last Service entry whose type starts with the
\* server type URI and the claimed identity the URI of the last entry whose
\* type starts with the signon type URI, whatever the priorities are; a role
\* without a matching entry yields the empty string.
C16_LastServiceWins ==
    DocumentRead =>
        /\ rEndpoint = LastURI(resp.body.services, ServerType)
        /\ rClaimed = LastURI(resp.body.services, SignonType)

\* a document with two server entries, the first of higher priority, gave
\* the URI of the second, and no claimed identity
C16_Witness ==
    /\ DocumentRead
    /\ Len(resp.body.services) = 2
    /\ resp.body.services[1].Type = ServerType
    /\ resp.body.services[2].Type = ServerType
    /\ resp.body.services[1].Priority > resp.body.services[2].Priority
    /\ resp.body.services[1].URI # resp.body.services[2].URI
    /\ rEndpoint = resp.body.services[2].URI
    /\ rClaimed = <<>>

\* ---------------------------------------------------------------------------
\* RedirectURI returned a URL
UrlReturned == rOutcome = "returned" /\ rErr = Nil

\* the endpoint has a query component: it holds a '?'
HasQuery(endpoint) == \E i \in 1..Len(endpoint) : endpoint[i] = "?"

\* what follows the discovered endpoint and the join character in the URL
QueryOfURL == SubSeq(rURL, Len(rEndpoint) + 2, Len(rURL))

\* C17: the returned URL is the discovered endpoint, then '?' when the
\* endpoint has no query component and '&' when it has one, then the query
\* string.
C17_JoinCharacter ==
    UrlReturned =>
        /\ Begins(rURL, rEndpoint)
        /\ Len(rURL) > Len(rEndpoint) + 1
        /\ rURL[Len(rEndpoint) + 1] = (IF HasQuery(rEndpoint) THEN "&" ELSE "?")
        /\ Begins(QueryOfURL, K_claimed_id \o <<"=">>)
        /\ ~HasQuery(QueryOfURL)

\* a URL was returned for the endpoint http://op/a?b=c, joined with '&'
C17_Witness ==
    /\ UrlReturned
    /\ rEndpoint = OP2
    /\ HasQuery(rEndpoint)
    /\ rURL[Len(rEndpoint) + 1] = "&"

\* ---------------------------------------------------------------------------
\* Claim-side reading of a URL-encoded form (a query string or a POST body).
\* the position of the first c in s, 0 when there is none
FirstPos(s, c) ==
    IF \E i \in 1..Len(s) : s[i] = c
    THEN CHOOSE i \in 1..Len(s) : s[i] = c /\ \A j \in 1..(i - 1) : s[j] # c
    ELSE 0

\* the pieces of s between the characters c
RECURSIVE Pieces(_, _)
Pieces(s, c) ==
    IF FirstPos(s, c) = 0 THEN <<s>>
    ELSE <<SubSeq(s, 1, FirstPos(s, c) - 1)>>
         \o Pieces(SubSeq(s, FirstPos(s, c) + 1, Len(s)), c)

\* s with its %XX escapes and '+' decoded
RECURSIVE Unescape(_)
Unescape(s) ==
    IF s = <<>> THEN <<>>
    ELSE IF s[1] = "%" /\ Len(s) >= 3
    THEN <<CHOOSE c \in DOMAIN Escaped : Escaped[c] = SubSeq(s, 1, 3)>>
         \o Unescape(SubSeq(s, 4, Len(s)))
    ELSE IF s[1] = "+" THEN <<" ">> \o Unescape(Tail(s))
    ELSE <<s[1]>> \o Unescape(Tail(s))

\* the key and the value of one key=value piece
PieceKey(p) ==
    Unescape(IF FirstPos(p, "=") = 0 THEN p ELSE SubSeq(p, 1, FirstPos(p, "=") - 1))

PieceValue(p) ==
    Unescape(IF FirstPos(p, "=") = 0 THEN <<>> ELSE SubSeq(p, FirstPos(p, "=") + 1, Len(p)))

\* the key=value pieces of a form
FormPieces(form) == SelectSeq(Pieces(form, "&"), LAMBDA p : p # <<>>)

\* the keys a form carries
FormKeys(form) == { PieceKey(FormPieces(form)[i]) : i \in 1..Len(FormPieces(form)) }

\* the values a form carries for key, in order
FormValues(form, key) ==
    LET ps == SelectSeq(FormPieces(form), LAMBDA p : PieceKey(p) = key)
    IN [i \in 1..Len(ps) |-> PieceValue(ps[i])]

\* C18: in every URL RedirectURI returns, openid.claimed_id and
\* openid.identity each carry one value, the same: the claimed identity the
\* extractor returned when it is non-empty, the identifier_select sentinel
\* when it is empty.
C18_ClaimedIdAndIdentity ==
    UrlReturned =>
        LET want == IF rClaimed = <<>> THEN IdentifierSelect ELSE rClaimed IN
        /\ FormValues(QueryOfURL, K_claimed_id) = <<want>>
        /\ FormValues(QueryOfURL, K_identity) = <<want>>

\* a URL was returned for a document without a signon entry: both
\* parameters carry the sentinel
C18_Witness ==
    /\ UrlReturned
    /\ DocumentRead
    /\ Matching(resp.body.services, SignonType) = {}
    /\ rClaimed = <<>>
    /\ FormValues(QueryOfURL, K_claimed_id) = <<IdentifierSelect>>
    /\ FormValues(QueryOfURL, K_identity) = <<IdentifierSelect>>

\* a URL was returned for a document with a signon entry: both parameters
\* carry its URI
C18_WitnessClaimed ==
    /\ UrlReturned
    /\ rClaimed = C1
    /\ FormValues(QueryOfURL, K_claimed_id) = <<C1>>
    /\ FormValues(QueryOfURL, K_identity) = <<C1>>

\* ---------------------------------------------------------------------------
\* the last response is text/html without an X-Xrds-Location header, and
\* its body was read
HtmlNoHeader == Answered /\ IsHtml /\ ~IsXrds /\ resp.xloc = <<>> /\ bodyRead

\* the body of the last response holds a meta tag with
\* http-equiv=X-XRDS-Location and a content attribute of value u
HasMetaTo(u) ==
    \E i \in 1..Len(resp.body.metas) :
        /\ ElmHas(resp.body.metas[i], A_http_equiv, X_XRDS_Location)
        /\ ElmHas(resp.body.metas[i], A_content, u)

\* the URIs the meta tags of the model's bodies name
MetaTargets == {U1, U2}

\* discovery ended in an error, with the empty URL and no call pending
DiscoveryFailed ==
    /\ pc = "done"
    /\ rOutcome = "returned"
    /\ rErr # Nil
    /\ rURL = <<>>

\* C19 as stated: a text/html response without the header whose body holds a
\* meta tag with http-equiv=X-XRDS-Location and content u leaves the call
\* discover(u) pending; when the body holds no such tag, or none with a
\* content attribute, discovery fails and no call is pending.
C19_MetaRedirects ==
    /\ \A u \in MetaTargets :
         (HtmlNoHeader /\ HasMetaTo(u)) =>
            /\ pc = "discover"
            /\ \E v \in MetaTargets : HasMetaTo(v) /\ uri = v
    /\ (HtmlNoHeader /\ ~HasUsableMeta) => DiscoveryFailed

\* the positions of the meta tags with http-equiv=X-XRDS-Location
MetaPositions ==
    { i \in 1..Len(resp.body.metas) :
        ElmHas(resp.body.metas[i], A_http_equiv, X_XRDS_Location) }

\* the first meta tag with http-equiv=X-XRDS-Location
FirstMeta ==
    resp.body.metas[CHOOSE i \in MetaPositions : \A j \in MetaPositions : i <= j]

\* the value of the first content attribute of the element elm
FirstContent(elm) ==
    elm[CHOOSE j \in 1..Len(elm) :
          /\ elm[j].Name = A_content
          /\ \A k \in 1..(j - 1) : elm[k].Name # A_content].Value

\* the first meta tag with http-equiv=X-XRDS-Location has a content attribute
FirstMetaUsable == MetaPositions # {} /\ ElmHasName(FirstMeta, A_content)

\* C19 amended: a text/html response without the header whose first meta tag
\* with http-equiv=X-XRDS-Location has a content attribute of value u leaves
\* exactly the call discover(u) pending, and the step that follows is a single
\* GET addressed to u; when the body holds no such tag, or the first one has
\* no content attribute, discovery fails and no call is pending.
C19_FirstMetaRedirects ==
    /\ []((HtmlNoHeader /\ FirstMetaUsable) =>
            /\ pc = "discover"
            /\ rOutcome = "none"
            /\ uri = FirstContent(FirstMeta))
    /\ []((HtmlNoHeader /\ ~FirstMetaUsable) => DiscoveryFailed)
    /\ [][(HtmlNoHeader /\ FirstMetaUsable) =>
            /\ Len(gets') = IF Len(gets) < MaxHops THEN Len(gets) + 1 ELSE MaxHops
            /\ gets'[Len(gets')] = FirstContent(FirstMeta)
            /\ \A i \in 1..(Len(gets') - 1) :
                 gets'[i] = gets[i + (IF Len(gets) < MaxHops THEN 0 ELSE 1)]]_vars

\* a text/html body whose second meta tag is the X-XRDS-Location one, naming
\* U2, left the call discover(U2) pending
C19_Witness ==
    /\ HtmlNoHeader
    /\ Len(resp.body.metas) = 2
    /\ MetaPositions = {2}
    /\ FirstContent(FirstMeta) = U2
    /\ pc = "discover"
    /\ uri = U2

\* a text/html body whose first X-XRDS-Location meta tag has no content
\* attribute, and whose second names U2, failed discovery
C19_WitnessNoContent ==
    /\ HtmlNoHeader
    /\ MetaPositions = {1, 2}
    /\ ~FirstMetaUsable
    /\ HasMetaTo(U2)
    /\ DiscoveryFailed
    /\ rErr = YadisErr

\* ---------------------------------------------------------------------------
\* Validate was called with a non-empty openid.op_endpoint and the mode id_res
VerifiableCall ==
    /\ vpc # "idle"
    /\ ParamValue(vArg, K_op_endpoint) # <<>>
    /\ ParamValue(vArg, K_mode) = id_res

\* C20: every call of Validate with a non-empty openid.op_endpoint and the
\* mode id_res issues exactly one POST, addressed to that endpoint, whose
\* form body carries openid.mode=check_authentication once, every other
\* parameter of the assertion with the values it had, and nothing else.
C20_OnePostPerCall ==
    VerifiableCall =>
        /\ Len(posts) = 1
        /\ posts[1].url = ParamValue(vArg, K_op_endpoint)
        /\ posts[1].contentType = FormMime
        /\ FormValues(posts[1].body, K_mode) = <<check_authentication>>
        /\ \A k \in (DOMAIN vArg) \ {K_mode} : FormValues(posts[1].body, k) = vArg[k]
        /\ FormKeys(posts[1].body) \subseteq (DOMAIN vArg) \cup {K_mode}

\* a call whose assertion carries two endpoints, two modes and a claimed
\* identity issued its one POST
C20_Witness ==
    /\ VerifiableCall
    /\ vArg[K_op_endpoint] = <<E2, E1>>
    /\ vArg[K_mode] = <<id_res, checkid_setup>>
    /\ K_claimed_id \in DOMAIN vArg
    /\ Len(posts) = 1
    /\ posts[1].url = E2
    /\ FormValues(posts[1].body, K_op_endpoint) = <<E2, E1>>

==============================================================================
